---- MODULE Spec2Model ----
(***************************************************************************)
(* Model of multiplatform-dlfcn-tests/testlib/testlib.c: a shared library  *)
(* exporting testlib_test1 and testlib_test2, together with the host       *)
(* process that loads it, looks its symbols up and calls them.             *)
(*                                                                         *)
(* Spec   : a host process with several threads calling into the library.  *)
(* SpecEq : testlib_test2 applied to the pairs of three drawn inputs.      *)
(***************************************************************************)
EXTENDS Integers, FiniteSets, Sequences, TLC

VARIABLES
    lang,     \* language testlib.c was compiled as: "c" or "cpp"
    sym,      \* host: result of looking each function up by its plain name
    mem,      \* host: the process's static storage outside the call frames
    pc,       \* per thread: where the thread is
    arg,      \* per thread: the caller's actual arguments of its last call
    frame,    \* per thread: the callee's parameters i1, i2 while in the call
    ret,      \* per thread: <<v>> when the last call returned v, else <<>>
    x,        \* SpecEq: the three drawn inputs
    res       \* SpecEq: per pair of inputs, <<v>> once testlib_test2 returned v

vars == <<lang, sym, mem, pc, arg, frame, ret, x, res>>

---------------------------------------------------------------------------
\* The host process: its threads and its storage.

NThreads == 2

Threads == 1..NThreads

\* Values of the host's storage cell.
MemVals == {0, 1}

\* No value (a thread that has no result, an empty frame).
None == <<>>

---------------------------------------------------------------------------
\* The C type int of the parameters and results (32 bits, two's complement).

INT_MAX == 2147483647

INT_MIN == -INT_MAX - 1

\* Arguments drawn in SpecEq: the extremes, both signs, and a value whose
\* low 16 bits equal those of 0.
IntSamples == {INT_MIN, -1, 0, 1, 65536, INT_MAX}

\* Arguments drawn by the threads of Spec.
ThreadSamples == {INT_MIN, -1, 0, INT_MAX}

---------------------------------------------------------------------------
\* Lines 1-8: the export macros.

Langs == {"c", "cpp"}

\* #ifdef __cplusplus / #define TEST_CALL extern "C" / #else / #define TEST_CALL
TEST_CALL_unmarked(l) == "none"

TEST_CALL(l) == IF l = "cpp" THEN "extern C" ELSE "none"

\* #define TEST_EXPORT __attribute__((visibility("default")))
TEST_EXPORT == "default"

\* #define TEST_API TEST_CALL TEST_EXPORT
TEST_API(l) == [linkage |-> TEST_CALL(l), visibility |-> TEST_EXPORT]

\* The functions the file defines, each declared TEST_API.
Functions == {"testlib_test1", "testlib_test2"}

\* The name a C++ compiler gives a function without C linkage.
Mangled(f) == IF f = "testlib_test1" THEN "_Z13testlib_test1v"
                                     ELSE "_Z13testlib_test2ii"

\* The name of function f in the object file of a build in language l.
SymbolName(l, f) ==
    IF l = "cpp" /\ TEST_API(l).linkage # "extern C" THEN Mangled(f) ELSE f

\* The dynamic symbol table of the shared library of a build in language l.
Exports(l) ==
    {SymbolName(l, f) : f \in {g \in Functions : TEST_API(l).visibility = "default"}}

---------------------------------------------------------------------------
\* Lines 10-16: the two functions.

testlib_test1_typo == 1337 + 40

testlib_test1_static == 1337 + mem

\* int testlib_test1() { return 1337; }
testlib_test1 == 1337

testlib_test2_trunc(i1, i2) == IF (i1 % 65536) = (i2 % 65536) THEN 1 ELSE 0

testlib_test2_assign(i1, i2) == i2

testlib_test2_le(i1, i2) == IF i1 <= i2 THEN 1 ELSE 0

\* int testlib_test2(int i1, int i2) { return i1 == i2; }
testlib_test2(i1, i2) == IF i1 = i2 THEN 1 ELSE 0

---------------------------------------------------------------------------
\* Spec: the host process and its threads.

CanCall == {"start", "ret1", "ret2"}

TypeOK ==
    /\ lang \in Langs
    /\ sym \in [Functions -> {"unknown", "found", "missing"}]
    /\ mem \in MemVals
    /\ pc \in [Threads -> {"start", "test1", "test2", "ret1", "ret2"}]
    /\ arg \in [Threads -> {None} \cup (ThreadSamples \X ThreadSamples)]
    /\ frame \in [Threads -> {None} \cup (ThreadSamples \X ThreadSamples)]
    /\ \A t \in Threads : ret[t] = None \/ (Len(ret[t]) = 1 /\ ret[t][1] \in Int)

Init ==
    /\ lang \in Langs
    /\ sym = [f \in Functions |-> "unknown"]
    /\ mem = 0
    /\ pc = [t \in Threads |-> "start"]
    /\ arg = [t \in Threads |-> None]
    /\ frame = [t \in Threads |-> None]
    /\ ret = [t \in Threads |-> None]
    /\ x = None
    /\ res = None

\* The host looks function f up by its plain name in the loaded library.
Dlsym(f) ==
    /\ sym[f] = "unknown"
    /\ sym' = [sym EXCEPT ![f] = IF f \in Exports(lang) THEN "found" ELSE "missing"]
    /\ UNCHANGED <<lang, mem, pc, arg, frame, ret, x, res>>

\* The host writes its own storage.
HostWrite(v) ==
    /\ v # mem
    /\ mem' = v
    /\ UNCHANGED <<lang, sym, pc, arg, frame, ret, x, res>>

\* Thread t calls testlib_test1().
Call1(t) ==
    /\ pc[t] \in CanCall
    /\ sym["testlib_test1"] = "found"
    /\ pc' = [pc EXCEPT ![t] = "test1"]
    /\ arg' = [arg EXCEPT ![t] = None]
    /\ frame' = [frame EXCEPT ![t] = None]
    /\ ret' = [ret EXCEPT ![t] = None]
    /\ UNCHANGED <<lang, sym, mem, x, res>>

Ret1_counting(t) ==
    /\ pc[t] = "test1"
    /\ ret' = [ret EXCEPT ![t] = <<testlib_test1>>]
    /\ pc' = [pc EXCEPT ![t] = "ret1"]
    /\ mem' = (mem + 1) % 2
    /\ UNCHANGED <<lang, sym, arg, frame, x, res>>

\* The body of testlib_test1 runs in thread t and returns.
Ret1(t) ==
    /\ pc[t] = "test1"
    /\ ret' = [ret EXCEPT ![t] = <<testlib_test1>>]
    /\ pc' = [pc EXCEPT ![t] = "ret1"]
    /\ UNCHANGED <<lang, sym, mem, arg, frame, x, res>>

\* Thread t calls testlib_test2(a, b): the arguments are passed by value.
Call2(t, a, b) ==
    /\ pc[t] \in CanCall
    /\ sym["testlib_test2"] = "found"
    /\ pc' = [pc EXCEPT ![t] = "test2"]
    /\ arg' = [arg EXCEPT ![t] = <<a, b>>]
    /\ frame' = [frame EXCEPT ![t] = <<a, b>>]
    /\ ret' = [ret EXCEPT ![t] = None]
    /\ UNCHANGED <<lang, sym, mem, x, res>>

\* i1 - i2 is representable as an int.
DiffFits(i1, i2) ==
    /\ ~(i2 > 0 /\ i1 < INT_MIN + i2)
    /\ ~(i2 < 0 /\ i1 > INT_MAX + i2)

Ret2_trapping(t) ==
    /\ pc[t] = "test2"
    /\ DiffFits(frame[t][1], frame[t][2])
    /\ ret' = [ret EXCEPT ![t] = <<testlib_test2(frame[t][1], frame[t][2])>>]
    /\ pc' = [pc EXCEPT ![t] = "ret2"]
    /\ frame' = [frame EXCEPT ![t] = None]
    /\ UNCHANGED <<lang, sym, mem, arg, x, res>>

Ret2_shared(t) ==
    /\ pc[t] = "test2"
    /\ \E u \in Threads :
         /\ pc[u] = "test2"
         /\ ret' = [ret EXCEPT ![t] = <<testlib_test2(frame[u][1], frame[u][2])>>]
    /\ pc' = [pc EXCEPT ![t] = "ret2"]
    /\ frame' = [frame EXCEPT ![t] = None]
    /\ UNCHANGED <<lang, sym, mem, arg, x, res>>

\* The body of testlib_test2 runs in thread t on its parameters and returns.
Ret2(t) ==
    /\ pc[t] = "test2"
    /\ ret' = [ret EXCEPT ![t] = <<testlib_test2(frame[t][1], frame[t][2])>>]
    /\ pc' = [pc EXCEPT ![t] = "ret2"]
    /\ frame' = [frame EXCEPT ![t] = None]
    /\ UNCHANGED <<lang, sym, mem, arg, x, res>>

Next ==
    \/ \E f \in Functions : Dlsym(f)
    \/ \E v \in MemVals : HostWrite(v)
    \/ \E t \in Threads : Call1(t)
    \/ \E t \in Threads : Ret1(t)
    \/ \E t \in Threads : \E a, b \in ThreadSamples : Call2(t, a, b)
    \/ \E t \in Threads : Ret2(t)

Spec == Init /\ [][Next]_vars

---------------------------------------------------------------------------
\* SpecEq: testlib_test2 on the pairs of three drawn inputs.

Idx == 1..3

EqTypeOK ==
    /\ x \in IntSamples \X IntSamples \X IntSamples
    /\ \A p \in Idx \X Idx : res[p] = None \/ (Len(res[p]) = 1 /\ res[p][1] \in Int)

EqInit ==
    /\ lang = "c"
    /\ sym = [f \in Functions |-> "found"]
    /\ mem = 0
    /\ pc = [t \in Threads |-> "start"]
    /\ arg = [t \in Threads |-> None]
    /\ frame = [t \in Threads |-> None]
    /\ ret = [t \in Threads |-> None]
    /\ x \in IntSamples \X IntSamples \X IntSamples
    /\ res = [p \in Idx \X Idx |-> None]

\* One call testlib_test2(x[i], x[j]); the result is kept.
EqApply(i, j) ==
    /\ res[<<i, j>>] = None
    /\ res' = [res EXCEPT ![<<i, j>>] = <<testlib_test2(x[i], x[j])>>]
    /\ UNCHANGED <<lang, sym, mem, pc, arg, frame, ret, x>>

EqNext == \E i, j \in Idx : EqApply(i, j)

SpecEq == EqInit /\ [][EqNext]_vars

---------------------------------------------------------------------------
\* Properties.

Returned1(t) == pc[t] = "ret1"

Returned2(t) == pc[t] = "ret2"

\* What an equality test of a and b yields.
Eq01(a, b) == IF a = b THEN 1 ELSE 0

\* C1: whenever a call of testlib_test1 has returned, whatever calls of
\* either function came before it in any thread, the value returned is 1337.
C1_Test1Returns1337 ==
    \A t \in Threads : Returned1(t) => ret[t] = <<1337>>

\* A call of testlib_test1 returned after an earlier call of testlib_test2
\* with arguments had returned and the host's storage had changed.
C1_Witness ==
    /\ Returned1(1) /\ ret[1] = <<1337>>
    /\ Returned2(2) /\ arg[2] = <<INT_MIN, INT_MAX>>
    /\ mem = 1

\* C2: for every pair of int inputs, testlib_test2 returns 1 when the two
\* are the same value and 0 when they differ; different values are never
\* reported equal.
C2_Test2IsEquality ==
    \A i, j \in Idx :
        res[<<i, j>>] # None =>
            /\ (x[i] = x[j] => res[<<i, j>>] = <<1>>)
            /\ (x[i] # x[j] => res[<<i, j>>] = <<0>>)

\* Results exist for an equal pair and for two different values that agree
\* in their low 16 bits.
C2_Witness ==
    /\ x = <<0, 65536, 0>> /\ res[<<1, 2>>] = <<0>> /\ res[<<1, 3>>] = <<1>>

\* C3: a step of a call (entering or returning from either function) leaves
\* the host's storage, the symbol lookups, the build, every other thread and
\* the caller's own arguments on return unchanged.
C3_CallsChangeNothingElse ==
    [][\A t \in Threads :
         pc'[t] # pc[t] =>
            /\ mem' = mem /\ sym' = sym /\ lang' = lang
            /\ (pc[t] \in {"test1", "test2"} => arg'[t] = arg[t])
            /\ \A u \in Threads \ {t} :
                 /\ pc'[u] = pc[u] /\ arg'[u] = arg[u]
                 /\ frame'[u] = frame[u] /\ ret'[u] = ret[u]]_vars

\* Both functions have returned while the host's storage holds a value the
\* host wrote.
C3_Witness ==
    /\ Returned1(1) /\ Returned2(2) /\ mem = 1

\* C4: any two completed calls of the same function with the same arguments
\* returned the same value, whatever happened before each of them.
C4_SameCallSameResult ==
    \A t, u \in Threads :
        (pc[t] = pc[u] /\ pc[t] \in {"ret1", "ret2"} /\ arg[t] = arg[u])
            => ret[t] = ret[u]

\* Two threads have each completed testlib_test2 on the same arguments.
C4_Witness ==
    /\ Returned2(1) /\ Returned2(2)
    /\ arg[1] = <<INT_MAX, INT_MIN>> /\ arg[2] = arg[1]
    /\ ret[1] = <<0>> /\ mem = 1

\* C5: a call in progress can always return, and what it returns is an
\* int: there is no state in which a call is stuck or yields no value.
C5_CallsAlwaysReturnInt ==
    \A t \in Threads :
        /\ pc[t] = "test1" => ENABLED Ret1(t)
        /\ pc[t] = "test2" => ENABLED Ret2(t)
        /\ pc[t] \in {"ret1", "ret2"} =>
              /\ Len(ret[t]) = 1
              /\ ret[t][1] >= INT_MIN /\ ret[t][1] <= INT_MAX

\* testlib_test2 has returned on the two extremes, in both orders.
C5_Witness ==
    /\ Returned2(1) /\ arg[1] = <<INT_MIN, INT_MAX>>
    /\ Returned2(2) /\ arg[2] = <<INT_MAX, INT_MIN>>

\* C6: in a C build and in a C++ build both functions are in the library's
\* dynamic symbol table under their plain names, so a lookup by plain name
\* never fails.
C6_PlainNamesResolve ==
    /\ Functions \subseteq Exports(lang)
    /\ \A f \in Functions : sym[f] # "missing"

\* In a C++ build both functions have been looked up by plain name and found.
C6_Witness ==
    /\ lang = "cpp"
    /\ \A f \in Functions : sym[f] = "found"

\* C7: every result of testlib_test2 is 0 or 1.
C7_ResultIsZeroOrOne ==
    \A p \in Idx \X Idx : res[p] # None => res[p] \in {<<0>>, <<1>>}

\* Results exist for an equal pair and an unequal pair of large values.
C7_Witness ==
    /\ x = <<INT_MAX, INT_MAX, INT_MIN>>
    /\ res[<<1, 2>>] = <<1>> /\ res[<<1, 3>>] = <<0>>

\* C8: the results of testlib_test2 form an equality relation: a value is
\* equal to itself, the result does not depend on the order of the two
\* arguments, and equal to equal is equal.
C8_EquivalenceRelation ==
    /\ \A i \in Idx : res[<<i, i>>] # None => res[<<i, i>>] = <<1>>
    /\ \A i, j \in Idx :
         (res[<<i, j>>] # None /\ res[<<j, i>>] # None)
            => res[<<i, j>>] = res[<<j, i>>]
    /\ \A i, j, k \in Idx :
         (res[<<i, j>>] = <<1>> /\ res[<<j, k>>] = <<1>> /\ res[<<i, k>>] # None)
            => res[<<i, k>>] = <<1>>

\* All nine pairs have been computed for inputs of which two are equal.
C8_Witness ==
    /\ x = <<-1, 1, -1>>
    /\ \A p \in Idx \X Idx : res[p] # None
    /\ res[<<1, 3>>] = <<1>> /\ res[<<1, 2>>] = <<0>>

\* C9: in every interleaving of the threads, a call in progress holds its
\* own arguments as parameters and a completed call returned what it would
\* return alone: 1337, respectively 1 iff its own two arguments are equal.
C9_ThreadsDoNotInterfere ==
    \A t \in Threads :
        /\ pc[t] = "test2" => frame[t] = arg[t]
        /\ Returned1(t) => ret[t] = <<1337>>
        /\ Returned2(t) => ret[t] = <<Eq01(arg[t][1], arg[t][2])>>

\* One thread's call returned 1 on equal arguments while another thread's
\* call on unequal arguments is in progress.
C9_Witness ==
    /\ Returned2(1) /\ arg[1] = <<0, 0>> /\ ret[1] = <<1>>
    /\ pc[2] = "test2" /\ frame[2] = <<INT_MIN, INT_MAX>>

====
